---- MODULE Spec2Model ----
(***************************************************************************)
(* svc-gateway: the reservation saga (post_reservation), the cancellation  *)
(* workflow (delete_reservation) with its retry queue (queue_sender), and  *)
(* the fan-out aggregation of get_reservations / get_me.                   *)
(* Time is wall-clock milliseconds.                                        *)
(***************************************************************************)
EXTENDS Integers, Sequences, FiniteSets, TLC

(* ---------------------------- bounds ---------------------------------- *)
NumCancels == 2
NumSagas == 2
MaxList == 3
MaxTime == 11000
NumDropSagas == 1
NumProducers == 12
MaxBacklogTime == 500

(* ------------------------ program constants --------------------------- *)
MESSAGE_QUEUE_SIZE == 10
RETRY_DELAY_MS == 500
QUEUE_TIMEOUT_MS == 10 * 1000
DEFAULT_DISCOUNT == 5

BAD_REQUEST == 400
NOT_FOUND == 404
INTERNAL_SERVER_ERROR == 500
SERVICE_UNAVAILABLE == 503
NO_CONTENT == 204
OK == 200

Cancels == 1..NumCancels
(* the cancellation runs of the backlog specification *)
Producers == 1..NumProducers
Sagas == 1..NumSagas
Never == -1
NoHeader == "<none>"
BadHeader == "<non-ascii>"
Users == {"alice", "bob"}
(* the caller of run c; the identity header of a request is absent, not   *)
(* visible ASCII, or the caller's name                                    *)
UserOf(c) == IF c % 2 = 1 THEN "alice" ELSE "bob"
Headers(c) == {NoHeader, BadHeader, UserOf(c)}

(* --------------------- downstream responses --------------------------- *)
(* What a downstream call can come back with: a transport failure, or an  *)
(* HTTP response with a status and a body that decodes or does not.       *)
Transport == [transport |-> TRUE, status |-> 0, decodable |-> FALSE]
Http(s, d) == [transport |-> FALSE, status |-> s, decodable |-> d]

NoResponse == [transport |-> FALSE, status |-> 0, decodable |-> FALSE]

Err(s) == [ok |-> FALSE, status |-> s]
Okay == [ok |-> TRUE, status |-> OK]

is_client_error(s) == s >= 400 /\ s < 500
is_error_status(s) == s >= 400 /\ s < 600

(* .send().await.map_err(503)?.error_for_status().map_err(status)?         *)
SendStatus(r) ==
    IF r.transport THEN Err(SERVICE_UNAVAILABLE)
    ELSE IF is_error_status(r.status) THEN Err(r.status)
    ELSE Okay

(* ... followed by .json::<T>().await.map_err(500)?                        *)
SendStatusJson(r) ==
    IF ~SendStatus(r).ok THEN SendStatus(r)
    ELSE IF ~r.decodable THEN Err(INTERNAL_SERVER_ERROR)
    ELSE Okay

(* .send().await.map_err(503)?.json::<T>().await.map_err(500)?             *)
SendJson(r) ==
    IF r.transport THEN Err(SERVICE_UNAVAILABLE)
    ELSE IF ~r.decodable THEN Err(INTERNAL_SERVER_ERROR)
    ELSE Okay

(* enrichment: Err(e) => None, Ok(p) => try_from_json(p)                    *)
TryFromJson(r) == ~r.transport /\ r.decodable

ReadResponses == {Transport, Http(OK, TRUE), Http(OK, FALSE), Http(NOT_FOUND, FALSE)}
WriteResponses == {Transport, Http(NO_CONTENT, FALSE), Http(NOT_FOUND, FALSE)}
LoyaltyWriteResponses == {Transport, Http(OK, FALSE), Http(INTERNAL_SERVER_ERROR, FALSE)}

VARIABLES
    now,
    (* retry queue and worker (main.rs) *)
    queue, wpc, wmsg, wake,
    (* cancellation runs (routes.rs delete_reservation); cSeen is the     *)
    (* response received last among steps 1 to 3, cWaited whether the     *)
    (* run's send found the channel full, cLoyalty how the run's own      *)
    (* loyalty delete ended ("ok" or "err")                               *)
    cpc, cUser, cMsg, cResp, cCalls, cSeen, cWaited, cLoyalty,
    (* observation of the worker: the order of enqueues; whether the      *)
    (* attempt in progress is a retry; per action, whether it was         *)
    (* attempted, whether an attempt started by / after its deadline, and *)
    (* how it was dropped                                                 *)
    enqOrder, retrying, attempted, attemptedInTime, attemptedLate, discarded,
    (* saga runs (routes.rs post_reservation); sSeen records the identity *)
    (* header of the request and what the services answered: the loyalty  *)
    (* read, the loyalty update, the rollback, the response received last *)
    spc, sReq, sHotel, sCost, sLoyalty, sPayment, sCall, sCalls, sResp, sSeen,
    (* the payment and reservation services' records *)
    payments, reservations,
    (* one read request (routes.rs get_me / get_reservations /            *)
    (* get_reservation / get_loyalty); fUser is the identity header it    *)
    (* came with, fCalls the calls it issued, fSeen what the loyalty      *)
    (* lookup and the primary fetch answered                              *)
    fpc, fEndpoint, fLoyalty, fList, fOut, fOrder, fFailed, fResp,
    fUser, fCalls, fSeen

queueVars == <<queue, wpc, wmsg, wake>>
cancelVars == <<cpc, cUser, cMsg, cResp, cCalls, cSeen, cWaited, cLoyalty>>
obsVars == <<enqOrder, retrying, attempted, attemptedInTime, attemptedLate, discarded>>

sagaVars == <<spc, sReq, sHotel, sCost, sLoyalty, sPayment, sCall, sCalls, sResp, sSeen>>
storeVars == <<payments, reservations>>

fanVars == <<fpc, fEndpoint, fLoyalty, fList, fOut, fOrder, fFailed, fResp,
            fUser, fCalls, fSeen>>

vars == <<now, queueVars, cancelVars, obsVars, sagaVars, storeVars, fanVars>>

NoMsg == [timeout |-> Never, username |-> NoHeader, id |-> 0]

NoReq == [header |-> NoHeader, start |-> 0, end |-> 0]
NoLoyalty == [discount |-> 0]
NoPayment == [payment_uid |-> 0, price |-> 0]
NoResp == [status |-> 0, discount |-> 0, price |-> 0]
NoSeen == [header |-> NoHeader, loyaltyGet |-> 0, loyaltyPut |-> 0, rollback |-> 0,
           last |-> NoResponse]

(* Option<T> *)
None == [some |-> FALSE, value |-> 0]
Some(v) == [some |-> TRUE, value |-> v]
Pending == [some |-> FALSE, value |-> -1]

(* the state after construction, with R the cancellation runs to come *)
InitWith(R) ==
    /\ now = 0
    /\ fpc = "idle"
    /\ fEndpoint = ""
    /\ fLoyalty = None
    /\ fList = <<>>
    /\ fOut = <<>>
    /\ fOrder = <<>>
    /\ fFailed = {}
    /\ fResp = [status |-> 0, reservations |-> <<>>, loyalty |-> None]
    /\ fUser = NoHeader
    /\ fCalls = <<>>
    /\ fSeen = [loyalty |-> NoResponse, primary |-> NoResponse]
    /\ spc = [s \in Sagas |-> "idle"]
    /\ sReq = [s \in Sagas |-> NoReq]
    /\ sHotel = [s \in Sagas |-> 0]
    /\ sCost = [s \in Sagas |-> 0]
    /\ sCall = [s \in Sagas |-> [op |-> "", arg |-> 0]]
    /\ sLoyalty = [s \in Sagas |-> NoLoyalty]
    /\ sPayment = [s \in Sagas |-> NoPayment]
    /\ sResp = [s \in Sagas |-> NoResp]
    /\ sCalls = [s \in Sagas |-> <<>>]
    /\ sSeen = [s \in Sagas |-> NoSeen]
    /\ payments = <<>>
    /\ reservations = <<>>
    /\ queue = <<>>
    /\ wpc = "recv"
    /\ wmsg = NoMsg
    /\ wake = Never
    /\ cpc = [c \in R |-> "idle"]
    /\ cUser = [c \in R |-> NoHeader]
    /\ cMsg = [c \in R |-> NoMsg]
    /\ cResp = [c \in R |-> 0]
    /\ cCalls = [c \in R |-> <<>>]
    /\ cSeen = [c \in R |-> NoResponse]
    /\ cWaited = [c \in R |-> FALSE]
    /\ cLoyalty = [c \in R |-> ""]
    /\ enqOrder = <<>>
    /\ retrying = FALSE
    /\ attempted = [c \in R |-> FALSE]
    /\ attemptedInTime = [c \in R |-> FALSE]
    /\ attemptedLate = [c \in R |-> FALSE]
    /\ discarded = [c \in R |-> "no"]

Init == InitWith(Cancels)
InitBacklog == InitWith(Producers)

(* ------------------- delete_reservation (routes.rs) ------------------- *)
CancelReturn(c, status) ==
    /\ cpc' = [cpc EXCEPT ![c] = "done"]
    /\ cResp' = [cResp EXCEPT ![c] = status]

CancelCall(c, next, call) ==
    /\ cpc' = [cpc EXCEPT ![c] = next]
    /\ cCalls' = [cCalls EXCEPT ![c] = Append(@, call)]

(* the request arrives; the identity header is read; GET reservation is issued. *)
(* Runs are interchangeable, so they are numbered in the order they arrive.     *)
delete_reservation_start(c) ==
    /\ cpc[c] = "idle"
    /\ \A d \in Cancels : d < c => cpc[d] # "idle"
    /\ \E h \in Headers(c) :
        /\ cUser' = [cUser EXCEPT ![c] = h]
        /\ IF h \in {NoHeader, BadHeader}
           THEN CancelReturn(c, BAD_REQUEST) /\ UNCHANGED cCalls
           ELSE CancelCall(c, "fetch", "GET reservation") /\ UNCHANGED cResp
    /\ UNCHANGED <<now, queueVars, cMsg, cSeen, cWaited, cLoyalty, obsVars, sagaVars,
                   storeVars, fanVars>>

(* GET reservation answers; on success DELETE reservation is issued *)
delete_reservation_fetched(c) ==
    /\ cpc[c] = "fetch"
    /\ \E r \in ReadResponses :
        /\ cSeen' = [cSeen EXCEPT ![c] = r]
        /\ IF SendStatusJson(r).ok
           THEN CancelCall(c, "delRes", "DELETE reservation") /\ UNCHANGED cResp
           ELSE CancelReturn(c, SendStatusJson(r).status) /\ UNCHANGED cCalls
    /\ UNCHANGED <<now, queueVars, cUser, cMsg, cWaited, cLoyalty, obsVars, sagaVars,
                   storeVars, fanVars>>

(* variant: a failed DELETE reservation does not stop the workflow *)
delete_reservation_deleted_besteffort(c) ==
    /\ cpc[c] = "delRes"
    /\ \E r \in WriteResponses :
        /\ cSeen' = [cSeen EXCEPT ![c] = r]
        /\ CancelCall(c, "delPay", "DELETE payment") /\ UNCHANGED cResp
    /\ UNCHANGED <<now, queueVars, cUser, cMsg, cWaited, cLoyalty, obsVars, sagaVars,
                   storeVars, fanVars>>

(* DELETE reservation answers; on success DELETE payment is issued *)
delete_reservation_deleted(c) ==
    /\ cpc[c] = "delRes"
    /\ \E r \in WriteResponses :
        /\ cSeen' = [cSeen EXCEPT ![c] = r]
        /\ IF SendStatus(r).ok
           THEN CancelCall(c, "delPay", "DELETE payment") /\ UNCHANGED cResp
           ELSE CancelReturn(c, SendStatus(r).status) /\ UNCHANGED cCalls
    /\ UNCHANGED <<now, queueVars, cUser, cMsg, cWaited, cLoyalty, obsVars, sagaVars,
                   storeVars, fanVars>>

(* DELETE payment answers; on success DELETE loyalty is issued *)
delete_reservation_paid(c) ==
    /\ cpc[c] = "delPay"
    /\ \E r \in WriteResponses :
        /\ cSeen' = [cSeen EXCEPT ![c] = r]
        /\ IF SendStatus(r).ok
           THEN CancelCall(c, "delLoy", "DELETE loyalty") /\ UNCHANGED cResp
           ELSE CancelReturn(c, SendStatus(r).status) /\ UNCHANGED cCalls
    /\ UNCHANGED <<now, queueVars, cUser, cMsg, cWaited, cLoyalty, obsVars, sagaVars,
                   storeVars, fanVars>>

(* the message built at routes.rs:630-633: deadline is Utc::now() + 10 s *)
NewMessage(c) ==
    [timeout |-> now + QUEUE_TIMEOUT_MS, username |-> cUser[c], id |-> c]

(* variant: the channel takes a Message whatever its length *)
ChannelUnbounded == TRUE

(* msg_chan.send(..).await: completes only while the channel has room *)
ChannelHasRoom == Len(queue) < MESSAGE_QUEUE_SIZE

(* DELETE loyalty answers: success returns 204, failure builds the Message *)
delete_reservation_loyalty(c) ==
    /\ cpc[c] = "delLoy"
    /\ \E r \in LoyaltyWriteResponses :
        /\ cLoyalty' = [cLoyalty EXCEPT ![c] =
                            IF r.transport \/ is_error_status(r.status)
                            THEN "err" ELSE "ok"]
        /\ IF SendStatus(r).ok
           THEN CancelReturn(c, NO_CONTENT) /\ UNCHANGED cMsg
           ELSE /\ cpc' = [cpc EXCEPT ![c] = "send"]
                /\ cMsg' = [cMsg EXCEPT ![c] = NewMessage(c)]
                /\ UNCHANGED cResp
    /\ cWaited' = [cWaited EXCEPT ![c] = cpc'[c] = "send" /\ ~ChannelHasRoom]
    /\ UNCHANGED <<now, queueVars, cUser, cCalls, cSeen, obsVars, sagaVars, storeVars, fanVars>>

delete_reservation_send(c) ==
    /\ cpc[c] = "send"
    /\ ChannelHasRoom
    /\ queue' = Append(queue, cMsg[c])
    /\ cMsg' = [cMsg EXCEPT ![c] = NoMsg]
    /\ enqOrder' = Append(enqOrder, c)
    /\ CancelReturn(c, NO_CONTENT)
    /\ UNCHANGED <<now, wpc, wmsg, wake, cUser, cCalls, cSeen, cWaited, cLoyalty, retrying,
                   attempted, attemptedInTime, attemptedLate, discarded,
                   sagaVars, storeVars, fanVars>>

(* ----------------------- queue_sender (main.rs) ----------------------- *)
(* (m.request)() is invoked: one attempt of the action starts at `now` *)
Invoke(m) ==
    /\ wpc' = "request"
    /\ wmsg' = m
    /\ wake' = Never
    /\ retrying' = (m = wmsg)
    /\ attempted' = [attempted EXCEPT ![m.id] = TRUE]
    /\ attemptedInTime' = [attemptedInTime EXCEPT ![m.id] = @ \/ now <= m.timeout]
    /\ attemptedLate' = [attemptedLate EXCEPT ![m.id] = @ \/ now > m.timeout]

(* break: the Message is dropped and the worker returns to recv() *)
Discard(m, why) ==
    /\ wpc' = "recv"
    /\ wmsg' = NoMsg
    /\ wake' = Never
    /\ retrying' = FALSE
    /\ discarded' = [discarded EXCEPT ![m.id] = why]
    /\ UNCHANGED <<attempted, attemptedInTime, attemptedLate>>

(* variant: the deadline is checked before the first attempt as well *)
queue_sender_recv_checked ==
    /\ wpc = "recv"
    /\ queue # <<>>
    /\ queue' = Tail(queue)
    /\ IF Head(queue).timeout < now
       THEN Discard(Head(queue), "timeout")
       ELSE Invoke(Head(queue)) /\ UNCHANGED discarded
    /\ UNCHANGED <<now, cancelVars, enqOrder, sagaVars, storeVars, fanVars>>

(* variant: the next Message is taken while the current one is in flight *)
queue_sender_recv_eager ==
    /\ queue # <<>>
    /\ queue' = Tail(queue)
    /\ Invoke(Head(queue))
    /\ UNCHANGED <<now, cancelVars, enqOrder, discarded, sagaVars, storeVars, fanVars>>

(* recv.recv().await yields the head of the channel; the loop body starts *)
queue_sender_recv ==
    /\ wpc = "recv"
    /\ queue # <<>>
    /\ queue' = Tail(queue)
    /\ Invoke(Head(queue))
    /\ UNCHANGED <<now, cancelVars, enqOrder, discarded, sagaVars, storeVars, fanVars>>

(* the attempt returns: Ok breaks the loop, Err starts the 500 ms sleep *)
queue_sender_result ==
    /\ wpc = "request"
    /\ \E r \in LoyaltyWriteResponses :
        IF SendStatus(r).ok
        THEN Discard(wmsg, "ok")
        ELSE /\ wpc' = "sleep"
             /\ wake' = now + RETRY_DELAY_MS
             /\ UNCHANGED <<wmsg, discarded, retrying, attempted,
                            attemptedInTime, attemptedLate>>
    /\ UNCHANGED <<now, queue, cancelVars, enqOrder, sagaVars, storeVars, fanVars>>

(* variant: the deadline is never found exceeded *)
DeadlineIgnored(m) == FALSE

(* m.timeout < Utc::now() *)
TimedOut(m) == m.timeout < now

(* variant: the loop repeats without waiting for the sleep to end *)
queue_sender_wake_nosleep ==
    /\ wpc = "sleep"
    /\ IF wmsg.timeout < now
       THEN Discard(wmsg, "timeout")
       ELSE Invoke(wmsg) /\ UNCHANGED discarded
    /\ UNCHANGED <<now, queue, cancelVars, enqOrder, sagaVars, storeVars, fanVars>>

(* the sleep is over: the deadline is checked, then the loop repeats *)
queue_sender_wake ==
    /\ wpc = "sleep"
    /\ now >= wake
    /\ IF TimedOut(wmsg)
       THEN Discard(wmsg, "timeout")
       ELSE Invoke(wmsg) /\ UNCHANGED discarded
    /\ UNCHANGED <<now, queue, cancelVars, enqOrder, sagaVars, storeVars, fanVars>>

(* ------------------------------ time ---------------------------------- *)
(* A task that can run does so without delay (multi-thread runtime, four  *)
(* worker threads); time passes while tasks wait for I/O or for a timer.  *)
(* The clock starts with the first deadline: before any Message exists no *)
(* step depends on the time.                                              *)
DeadlinePending ==
    \/ wpc # "recv"
    \/ queue # <<>>
    \/ \E c \in DOMAIN cpc : cpc[c] = "send"

Runnable ==
    \/ wpc = "recv" /\ queue # <<>>
    \/ wpc = "sleep" /\ now >= wake
    \/ \E c \in DOMAIN cpc : cpc[c] = "send" /\ ChannelHasRoom

Tick ==
    /\ DeadlinePending
    /\ ~Runnable
    /\ now + RETRY_DELAY_MS <= MaxTime
    /\ now' = now + RETRY_DELAY_MS
    /\ UNCHANGED <<queueVars, cancelVars, obsVars, sagaVars, storeVars, fanVars>>

NextQueue ==
    \/ \E c \in Cancels : delete_reservation_start(c)
    \/ \E c \in Cancels : delete_reservation_fetched(c)
    \/ \E c \in Cancels : delete_reservation_deleted(c)
    \/ \E c \in Cancels : delete_reservation_paid(c)
    \/ \E c \in Cancels : delete_reservation_loyalty(c)
    \/ \E c \in Cancels : delete_reservation_send(c)
    \/ queue_sender_recv
    \/ queue_sender_result
    \/ queue_sender_wake
    \/ Tick

SpecQueue == Init /\ [][NextQueue]_vars

(* ------------------ the worker under fair scheduling ------------------ *)
(* Each attempt returns, and it does so at least one retry delay before   *)
(* the end of the modelled time, so that the sleep after it can end.      *)
live_tick ==
    /\ wpc = "request" => now + 2 * RETRY_DELAY_MS <= MaxTime
    /\ Tick

NextQueueLive ==
    \/ \E c \in Cancels : delete_reservation_start(c)
    \/ \E c \in Cancels : delete_reservation_fetched(c)
    \/ \E c \in Cancels : delete_reservation_deleted(c)
    \/ \E c \in Cancels : delete_reservation_paid(c)
    \/ \E c \in Cancels : delete_reservation_loyalty(c)
    \/ \E c \in Cancels : delete_reservation_send(c)
    \/ queue_sender_recv
    \/ queue_sender_result
    \/ queue_sender_wake
    \/ live_tick

(* The runtime polls every task that is ready (main.rs:73, four worker    *)
(* threads): the worker's steps and a send that has room are taken; every *)
(* attempt returns; time advances.                                        *)
FairQueue ==
    /\ WF_vars(queue_sender_recv)
    /\ WF_vars(queue_sender_result)
    /\ WF_vars(queue_sender_wake)
    /\ WF_vars(live_tick)
    /\ \A c \in Cancels : WF_vars(delete_reservation_send(c))

SpecQueueLive == Init /\ [][NextQueueLive]_vars /\ FairQueue

(* --------------------- the channel under load ------------------------- *)
(* Many cancellations whose loyalty delete fails.  Steps 1 to 4 of such a *)
(* run touch nothing but the run's own locals, so they are taken as one   *)
(* step that ends where the handler calls msg_chan.send: the identity is  *)
(* read, the four calls are issued, steps 1 to 3 succeed, the loyalty     *)
(* delete fails and the Message is built.                                 *)

(* variant: the run answers 204 while its send is still pending *)
delete_reservation_deferred_detached(c) ==
    /\ cpc[c] = "idle"
    /\ \A d \in Producers : d < c => cpc[d] # "idle"
    /\ cUser' = [cUser EXCEPT ![c] = UserOf(c)]
    /\ cCalls' = [cCalls EXCEPT ![c] = <<"GET reservation", "DELETE reservation",
                                         "DELETE payment", "DELETE loyalty">>]
    /\ cSeen' = [cSeen EXCEPT ![c] = Http(NO_CONTENT, FALSE)]
    /\ cMsg' = [cMsg EXCEPT ![c] = [NewMessage(c) EXCEPT !.username = UserOf(c)]]
    /\ cWaited' = [cWaited EXCEPT ![c] = ~ChannelHasRoom]
    /\ cLoyalty' = [cLoyalty EXCEPT ![c] = "err"]
    /\ cpc' = [cpc EXCEPT ![c] = "send"]
    /\ cResp' = [cResp EXCEPT ![c] = NO_CONTENT]
    /\ UNCHANGED <<now, queueVars, obsVars, sagaVars, storeVars, fanVars>>

(* steps 1 to 4 of a run whose loyalty delete fails, up to msg_chan.send *)
delete_reservation_deferred(c) ==
    /\ cpc[c] = "idle"
    /\ \A d \in Producers : d < c => cpc[d] # "idle"
    /\ cUser' = [cUser EXCEPT ![c] = UserOf(c)]
    /\ cCalls' = [cCalls EXCEPT ![c] = <<"GET reservation", "DELETE reservation",
                                         "DELETE payment", "DELETE loyalty">>]
    /\ cSeen' = [cSeen EXCEPT ![c] = Http(NO_CONTENT, FALSE)]
    /\ cMsg' = [cMsg EXCEPT ![c] = [NewMessage(c) EXCEPT !.username = UserOf(c)]]
    /\ cWaited' = [cWaited EXCEPT ![c] = ~ChannelHasRoom]
    /\ cLoyalty' = [cLoyalty EXCEPT ![c] = "err"]
    /\ cpc' = [cpc EXCEPT ![c] = "send"]
    /\ UNCHANGED <<now, queueVars, cResp, obsVars, sagaVars, storeVars, fanVars>>

(* The channel hands out its slots in the order the senders asked (the    *)
(* semaphore behind tokio's bounded channel is fair), which is the order  *)
(* in which the runs above reach their send.                              *)
delete_reservation_send_in_turn(c) ==
    /\ \A d \in Producers : d < c => cpc[d] # "send"
    /\ delete_reservation_send(c)

(* the clock of the backlog specification stops at MaxBacklogTime *)
backlog_tick ==
    /\ now + RETRY_DELAY_MS <= MaxBacklogTime
    /\ Tick

NextBacklog ==
    \/ \E c \in Producers : delete_reservation_deferred(c)
    \/ \E c \in Producers : delete_reservation_send_in_turn(c)
    \/ queue_sender_recv
    \/ queue_sender_result
    \/ queue_sender_wake
    \/ backlog_tick

SpecBacklog == InitBacklog /\ [][NextBacklog]_vars

(* -------------------- post_reservation (routes.rs) -------------------- *)
(* inputs: the stay (day numbers of start_date and end_date), the hotel's *)
(* nightly price, the discount of an existing loyalty account             *)
Stays == {<<1, 4>>, <<2, 1>>}
Prices == {100, 99}
Discounts == {10}
Requests(s) ==
    { [header |-> h, start |-> st[1], end |-> st[2]] : h \in Headers(s), st \in Stays }

(* Rust integer division truncates toward zero *)
RustDiv(a, b) == IF a >= 0 THEN a \div b ELSE -((-a) \div b)

(* (end_date - start_date).num_days() *)
num_days(req) == req.end - req.start

(* routes.rs:277: i64 product cast to i32; the prices and stays drawn     *)
(* here keep every product far inside the i32 range, where the cast and   *)
(* the i32 arithmetic below are exact                                     *)
Cost(req, price) == num_days(req) * price

(* variant: the percentage is taken of cost / 100 *)
ApplyDiscountDivFirst(cost, discount) ==
    cost - RustDiv(cost, 100) * discount

(* routes.rs:310: cost - (cost * discount / 100) *)
ApplyDiscount(cost, discount) ==
    cost - RustDiv(cost * discount, 100)

(* variant: a new member gets no discount *)
DefaultLoyaltyNoDiscount == [discount |-> 0]

(* routes.rs:296-300: the account substituted on NOT_FOUND *)
DefaultLoyalty == [discount |-> DEFAULT_DISCOUNT]

Call(op, arg) == [op |-> op, arg |-> arg]
NoCall == Call("", 0)

(* the handler returns: its locals are dropped, the response is sent *)
SagaReturn(s, status, discount, price) ==
    /\ spc' = [spc EXCEPT ![s] = "done"]
    /\ sResp' = [sResp EXCEPT ![s] =
                    [status |-> status, discount |-> discount, price |-> price]]
    /\ sCall' = [sCall EXCEPT ![s] = NoCall]
    /\ sReq' = [sReq EXCEPT ![s] = NoReq]
    /\ sHotel' = [sHotel EXCEPT ![s] = 0]
    /\ sCost' = [sCost EXCEPT ![s] = 0]
    /\ sLoyalty' = [sLoyalty EXCEPT ![s] = NoLoyalty]
    /\ sPayment' = [sPayment EXCEPT ![s] = NoPayment]
    /\ UNCHANGED sCalls

SagaFail(s, status) == SagaReturn(s, status, 0, 0)

(* the handler issues a downstream request and awaits the response *)
SagaCall(s, next, call) ==
    /\ spc' = [spc EXCEPT ![s] = next]
    /\ sCall' = [sCall EXCEPT ![s] = call]
    /\ sCalls' = [sCalls EXCEPT ![s] = Append(@, call.op)]
    /\ UNCHANGED sResp

(* what the payment and the reservation service do with a request: the   *)
(* pair is the response and whether the service carried the request out  *)
CreateOutcomes ==
    { <<Transport, FALSE>>, <<Transport, TRUE>>, <<Http(OK, TRUE), TRUE>>,
      <<Http(OK, FALSE), TRUE>>, <<Http(INTERNAL_SERVER_ERROR, FALSE), FALSE>> }
DeleteOutcomes ==
    { <<Transport, FALSE>>, <<Http(NO_CONTENT, FALSE), TRUE>>, <<Http(OK, TRUE), TRUE>>,
      <<Http(NOT_FOUND, FALSE), FALSE>> }
(* a server error of the loyalty service other than 500 *)
BAD_GATEWAY == 502
LoyaltyReadResponses ==
    { Transport, Http(NOT_FOUND, FALSE), Http(OK, TRUE), Http(OK, FALSE),
      Http(BAD_GATEWAY, FALSE) }

(* payment service: POST /api/v1/payment stores a record under a new id *)
PaymentCreated(s) ==
    Append(payments, [owner |-> s, deleted |-> FALSE])

(* payment service: DELETE /api/v1/payment/{uid} *)
PaymentDeleted(uid) ==
    [payments EXCEPT ![uid] = [@ EXCEPT !.deleted = TRUE]]

(* reservation service: POST /api/v1/reservations *)
ReservationCreated(s, uid) ==
    Append(reservations, [owner |-> s, payment_uid |-> uid])

(* the request arrives; the identity header is read; GET hotel is issued. *)
(* Runs are interchangeable, so they are numbered in the order they arrive. *)
post_reservation_start(s) ==
    /\ spc[s] = "idle"
    /\ \A t \in Sagas : t < s => spc[t] # "idle"
    /\ \E req \in Requests(s) :
        /\ sSeen' = [sSeen EXCEPT ![s].header = req.header]
        /\ IF req.header \in {NoHeader, BadHeader}
           THEN SagaFail(s, BAD_REQUEST)
           ELSE /\ sReq' = [sReq EXCEPT ![s] = req]
                /\ SagaCall(s, "hotel", Call("GET hotel", 0))
                /\ UNCHANGED <<sHotel, sCost, sLoyalty, sPayment>>
    /\ UNCHANGED <<now, queueVars, cancelVars, obsVars, fanVars, storeVars>>

(* GET hotel answers: the cost is computed and GET loyalty is issued *)
post_reservation_hotel(s) ==
    /\ spc[s] = "hotel"
    /\ \E r \in ReadResponses, price \in Prices :
        /\ sSeen' = [sSeen EXCEPT ![s].last = r]
        /\ IF SendStatusJson(r).ok
           THEN /\ sHotel' = [sHotel EXCEPT ![s] = price]
                /\ sCost' = [sCost EXCEPT ![s] = Cost(sReq[s], price)]
                /\ SagaCall(s, "loyalty", Call("GET loyalty", 0))
                /\ UNCHANGED <<sReq, sLoyalty, sPayment>>
           ELSE SagaFail(s, SendStatusJson(r).status)
    /\ UNCHANGED <<now, queueVars, cancelVars, obsVars, fanVars, storeVars>>

(* variant: a status other than 200 is treated like a missing account *)
LoyaltyReadLenient(r) ==
    IF r.transport THEN Err(SERVICE_UNAVAILABLE)
    ELSE IF r.status = OK /\ ~r.decodable THEN Err(INTERNAL_SERVER_ERROR)
    ELSE Okay

(* the outcome of the loyalty read, routes.rs:280-308 *)
LoyaltyRead(r) ==
    IF r.transport THEN Err(SERVICE_UNAVAILABLE)
    ELSE IF r.status = NOT_FOUND THEN Okay
    ELSE IF r.status = OK
         THEN (IF r.decodable THEN Okay ELSE Err(INTERNAL_SERVER_ERROR))
    ELSE Err(INTERNAL_SERVER_ERROR)

(* GET loyalty answers: the discount is applied and POST payment is issued *)
post_reservation_loyalty(s) ==
    /\ spc[s] = "loyalty"
    /\ \E r \in LoyaltyReadResponses, d \in Discounts :
        /\ sSeen' = [sSeen EXCEPT ![s].loyaltyGet =
                        IF r.transport THEN SERVICE_UNAVAILABLE ELSE r.status,
                                  ![s].last = r]
        /\ IF LoyaltyRead(r).ok
           THEN LET account == IF r.status = NOT_FOUND THEN DefaultLoyalty
                               ELSE [discount |-> d]
                    cost == ApplyDiscount(sCost[s], account.discount)
                IN /\ sLoyalty' = [sLoyalty EXCEPT ![s] = account]
                   /\ sCost' = [sCost EXCEPT ![s] = cost]
                   /\ SagaCall(s, "payment", Call("POST payment", cost))
                   /\ UNCHANGED <<sReq, sHotel, sPayment>>
           ELSE SagaFail(s, LoyaltyRead(r).status)
    /\ UNCHANGED <<now, queueVars, cancelVars, obsVars, fanVars, storeVars, fanVars>>

(* POST payment answers: PUT loyalty is issued *)
post_reservation_paid(s) ==
    /\ spc[s] = "payment"
    /\ \E o \in CreateOutcomes :
        /\ payments' = IF o[2] THEN PaymentCreated(s) ELSE payments
        /\ sSeen' = [sSeen EXCEPT ![s].last = o[1]]
        /\ IF SendStatusJson(o[1]).ok
           THEN /\ sPayment' = [sPayment EXCEPT ![s] =
                        [payment_uid |-> Len(payments'), price |-> sCall[s].arg]]
                /\ SagaCall(s, "loyaltyPut", Call("PUT loyalty", 0))
                /\ UNCHANGED <<sReq, sHotel, sCost, sLoyalty>>
           ELSE SagaFail(s, SendStatusJson(o[1]).status)
    /\ UNCHANGED <<now, queueVars, cancelVars, obsVars, fanVars, reservations>>

(* variant: the reservation refers to the newest payment record *)
ReservationRequestNewest(s) == Call("POST reservation", Len(payments))

(* routes.rs:364-377 *)
ReservationRequest(s) == Call("POST reservation", sPayment[s].payment_uid)

(* variant: the rollback deletes the newest payment record *)
RollbackRequestNewest(s) == Call("DELETE payment", Len(payments))

(* routes.rs:414-419 *)
RollbackRequest(s) == Call("DELETE payment", sPayment[s].payment_uid)

(* variant: a failed loyalty update returns 503 without the rollback *)
post_reservation_loyalty_updated_norollback(s) ==
    /\ spc[s] = "loyaltyPut"
    /\ \E r \in LoyaltyWriteResponses :
        /\ sSeen' = [sSeen EXCEPT ![s].loyaltyPut = SendStatus(r).status,
                                  ![s].last = r]
        /\ IF SendStatus(r).ok
           THEN /\ SagaCall(s, "reservation", ReservationRequest(s))
                /\ UNCHANGED <<sReq, sHotel, sCost, sLoyalty, sPayment>>
           ELSE SagaFail(s, SERVICE_UNAVAILABLE)
    /\ UNCHANGED <<now, queueVars, cancelVars, obsVars, fanVars, storeVars, fanVars>>

(* PUT loyalty answers: POST reservation on success, DELETE payment on failure *)
post_reservation_loyalty_updated(s) ==
    /\ spc[s] = "loyaltyPut"
    /\ \E r \in LoyaltyWriteResponses :
        /\ sSeen' = [sSeen EXCEPT ![s].loyaltyPut = SendStatus(r).status,
                                  ![s].last = r]
        /\ IF SendStatus(r).ok
           THEN SagaCall(s, "reservation", ReservationRequest(s))
           ELSE SagaCall(s, "rollback", RollbackRequest(s))
    /\ UNCHANGED <<now, queueVars, cancelVars, obsVars, fanVars, storeVars,
                   sReq, sHotel, sCost, sLoyalty, sPayment>>

(* variant: a failed POST reservation is compensated like a failed PUT loyalty *)
post_reservation_reserved_compensated(s) ==
    /\ spc[s] = "reservation"
    /\ \E o \in CreateOutcomes :
        /\ reservations' = IF o[2] THEN ReservationCreated(s, sCall[s].arg)
                                   ELSE reservations
        /\ sSeen' = [sSeen EXCEPT ![s].last = o[1]]
        /\ IF SendStatusJson(o[1]).ok
           THEN SagaReturn(s, OK, sLoyalty[s].discount, sPayment[s].price)
           ELSE /\ SagaCall(s, "rollback", RollbackRequest(s))
                /\ UNCHANGED <<sReq, sHotel, sCost, sLoyalty, sPayment>>
    /\ UNCHANGED <<now, queueVars, cancelVars, obsVars, fanVars, payments>>

(* POST reservation answers: the combined view is returned *)
post_reservation_reserved(s) ==
    /\ spc[s] = "reservation"
    /\ \E o \in CreateOutcomes :
        /\ reservations' = IF o[2] THEN ReservationCreated(s, sCall[s].arg)
                                   ELSE reservations
        /\ sSeen' = [sSeen EXCEPT ![s].last = o[1]]
        /\ IF SendStatusJson(o[1]).ok
           THEN SagaReturn(s, OK, sLoyalty[s].discount, sPayment[s].price)
           ELSE SagaFail(s, SendStatusJson(o[1]).status)
    /\ UNCHANGED <<now, queueVars, cancelVars, obsVars, fanVars, payments>>

(* DELETE payment answers: routes.rs:420-443 *)
post_reservation_rolled_back(s) ==
    /\ spc[s] = "rollback"
    /\ \E o \in DeleteOutcomes :
        /\ payments' = IF o[2] THEN PaymentDeleted(sCall[s].arg) ELSE payments
        /\ sSeen' = [sSeen EXCEPT ![s].rollback = SendStatusJson(o[1]).status,
                                  ![s].last = o[1]]
        /\ IF SendStatusJson(o[1]).ok
           THEN SagaFail(s, SERVICE_UNAVAILABLE)
           ELSE SagaFail(s, SendStatusJson(o[1]).status)
    /\ UNCHANGED <<now, queueVars, cancelVars, obsVars, fanVars, reservations>>

NextSaga ==
    \/ \E s \in Sagas : post_reservation_start(s)
    \/ \E s \in Sagas : post_reservation_hotel(s)
    \/ \E s \in Sagas : post_reservation_loyalty(s)
    \/ \E s \in Sagas : post_reservation_paid(s)
    \/ \E s \in Sagas : post_reservation_loyalty_updated(s)
    \/ \E s \in Sagas : post_reservation_reserved(s)
    \/ \E s \in Sagas : post_reservation_rolled_back(s)

SpecSaga == Init /\ [][NextSaga]_vars

(* ------------- post_reservation: the caller disconnects --------------- *)
(* The handler is one future polled by the connection task (main.rs:86,   *)
(* axum::serve); nothing in it is spawned.  When the caller goes away the *)
(* future is dropped at the .await it is suspended in: its locals are     *)
(* dropped, no later statement runs and no response is sent.  The request *)
(* in flight may or may not have been carried out by the service.        *)
AwaitPoints == {"hotel", "loyalty", "payment", "loyaltyPut", "reservation", "rollback"}

post_reservation_dropped(s) ==
    /\ spc[s] \in AwaitPoints
    /\ spc' = [spc EXCEPT ![s] = "dropped"]
    /\ sCall' = [sCall EXCEPT ![s] = NoCall]
    /\ sReq' = [sReq EXCEPT ![s] = NoReq]
    /\ sHotel' = [sHotel EXCEPT ![s] = 0]
    /\ sCost' = [sCost EXCEPT ![s] = 0]
    /\ sLoyalty' = [sLoyalty EXCEPT ![s] = NoLoyalty]
    /\ sPayment' = [sPayment EXCEPT ![s] = NoPayment]
    /\ \E carriedOut \in BOOLEAN :
        /\ payments' =
              IF carriedOut /\ spc[s] = "payment" THEN PaymentCreated(s)
              ELSE IF carriedOut /\ spc[s] = "rollback" THEN PaymentDeleted(sCall[s].arg)
              ELSE payments
        /\ reservations' =
              IF carriedOut /\ spc[s] = "reservation"
              THEN ReservationCreated(s, sCall[s].arg)
              ELSE reservations
    /\ UNCHANGED <<now, queueVars, cancelVars, obsVars, fanVars, sCalls, sResp, sSeen>>

(* the runs whose caller may disconnect *)
DropSagas == 1..NumDropSagas

NextSagaDrop ==
    \/ \E s \in DropSagas : post_reservation_start(s)
    \/ \E s \in DropSagas : post_reservation_hotel(s)
    \/ \E s \in DropSagas : post_reservation_loyalty(s)
    \/ \E s \in DropSagas : post_reservation_paid(s)
    \/ \E s \in DropSagas : post_reservation_loyalty_updated(s)
    \/ \E s \in DropSagas : post_reservation_reserved(s)
    \/ \E s \in DropSagas : post_reservation_rolled_back(s)
    \/ \E s \in DropSagas : post_reservation_dropped(s)

SpecSagaDrop == Init /\ [][NextSagaDrop]_vars

(* --------------- get_me / get_reservations (routes.rs) ---------------- *)
Endpoints == {"get_me", "get_reservations", "get_reservation", "get_loyalty"}

(* the first await of each handler and the call it waits for *)
FirstStep(e) ==
    CASE e = "get_me" -> [pc |-> "loyalty", call |-> "GET loyalty"]
      [] e = "get_reservations" -> [pc |-> "list", call |-> "GET reservations"]
      [] e = "get_reservation" -> [pc |-> "single", call |-> "GET reservation"]
      [] e = "get_loyalty" -> [pc |-> "account", call |-> "GET loyalty"]

(* the reservation service's answer to the list fetch: any sequence of    *)
(* distinct reservations, each with its payment reference                 *)
ReservationOf(r) == [reservation_uid |-> r, payment_uid |-> MaxList + 1 - r]
Lists ==
    UNION { { [i \in 1..n |-> ReservationOf(q[i])] :
                q \in { f \in [1..n -> 1..MaxList] :
                          \A i, j \in 1..n : i # j => f[i] # f[j] } } :
            n \in 0..MaxList }

(* the payment service's record for a payment id: its price *)
PaymentInfoOf(uid) == 100 * uid

EnrichResponses == {Transport, Http(OK, TRUE), Http(NOT_FOUND, FALSE)}

(* dto.rs:106-118 *)
from_svc_responses(res, payment) ==
    [reservation_uid |-> res.reservation_uid, payment |-> payment]

(* variant: the outputs are collected as the calls complete *)
join_all_unordered(out, order) == [k \in 1..Len(order) |-> out[order[k]]]

(* futures::future::join_all: the outputs in the order of the futures *)
join_all(out, order) == [k \in 1..Len(out) |-> out[k]]

AggregateReturn(status, list, loyalty) ==
    /\ fpc' = "done"
    /\ fResp' = [status |-> status, reservations |-> list, loyalty |-> loyalty]

(* the primary list fetch: get_me checks the status, get_reservations not *)
ListFetch(e, r) == IF e = "get_me" THEN SendStatusJson(r) ELSE SendJson(r)

(* variant: the first call is issued whatever the identity header *)
aggregate_start_anonymous ==
    /\ fpc = "idle"
    /\ \E e \in Endpoints, h \in Headers(1) :
        /\ fEndpoint' = e
        /\ fUser' = h
        /\ fpc' = FirstStep(e).pc
        /\ fCalls' = <<FirstStep(e).call>>
        /\ UNCHANGED fResp
    /\ UNCHANGED <<now, queueVars, cancelVars, obsVars, sagaVars, storeVars,
                   fLoyalty, fList, fOut, fOrder, fFailed, fSeen>>

(* the request arrives; the identity header is read; the first call is issued *)
aggregate_start ==
    /\ fpc = "idle"
    /\ \E e \in Endpoints, h \in Headers(1) :
        /\ fEndpoint' = e
        /\ fUser' = h
        /\ IF h \in {NoHeader, BadHeader}
           THEN AggregateReturn(BAD_REQUEST, <<>>, None) /\ UNCHANGED fCalls
           ELSE /\ fpc' = FirstStep(e).pc
                /\ fCalls' = <<FirstStep(e).call>>
                /\ UNCHANGED fResp
    /\ UNCHANGED <<now, queueVars, cancelVars, obsVars, sagaVars, storeVars,
                   fLoyalty, fList, fOut, fOrder, fFailed, fSeen>>

(* variant: any failure of the loyalty lookup only omits the loyalty field *)
get_me_loyalty_lenient ==
    /\ fpc = "loyalty"
    /\ \E r \in LoyaltyReadResponses, d \in Discounts :
        /\ fSeen' = [fSeen EXCEPT !.loyalty = r]
        /\ fLoyalty' = IF TryFromJson(r) THEN Some(d) ELSE None
        /\ fpc' = "list"
        /\ fCalls' = Append(fCalls, "GET reservations")
        /\ UNCHANGED fResp
    /\ UNCHANGED <<now, queueVars, cancelVars, obsVars, sagaVars, storeVars,
                   fEndpoint, fList, fOut, fOrder, fFailed, fUser>>

(* get_me: GET loyalty answers, routes.rs:89-101; the list fetch is issued *)
get_me_loyalty ==
    /\ fpc = "loyalty"
    /\ \E r \in LoyaltyReadResponses, d \in Discounts :
        /\ fSeen' = [fSeen EXCEPT !.loyalty = r]
        /\ IF ~r.transport /\ is_client_error(r.status)
           THEN AggregateReturn(r.status, <<>>, None) /\ UNCHANGED <<fLoyalty, fCalls>>
           ELSE /\ fLoyalty' = IF TryFromJson(r) THEN Some(d) ELSE None
                /\ fpc' = "list"
                /\ fCalls' = Append(fCalls, "GET reservations")
                /\ UNCHANGED fResp
    /\ UNCHANGED <<now, queueVars, cancelVars, obsVars, sagaVars, storeVars,
                   fEndpoint, fList, fOut, fOrder, fFailed, fUser>>

(* what the reservation service can answer to the list fetch: the status *)
(* and the body are independent, an error status may come with a body    *)
(* that decodes as a list                                                *)
ListResponses == ReadResponses \cup {Http(INTERNAL_SERVER_ERROR, TRUE)}

(* GET reservations answers: one enrichment call per entry is issued *)
aggregate_listed ==
    /\ fpc = "list"
    /\ \E r \in ListResponses, list \in Lists :
        /\ fSeen' = [fSeen EXCEPT !.primary = r]
        /\ IF ListFetch(fEndpoint, r).ok
           THEN /\ fList' = list
                /\ fOut' = [i \in 1..Len(list) |-> Pending]
                /\ fpc' = "enrich"
                /\ fCalls' = fCalls \o [i \in 1..Len(list) |-> "GET payment"]
                /\ UNCHANGED fResp
           ELSE AggregateReturn(ListFetch(fEndpoint, r).status, <<>>, None)
                /\ UNCHANGED <<fList, fOut, fCalls>>
    /\ UNCHANGED <<now, queueVars, cancelVars, obsVars, sagaVars, storeVars,
                   fEndpoint, fLoyalty, fOrder, fFailed, fUser>>

(* the payment lookup of entry i answers, in any order among the entries *)
aggregate_enriched(i) ==
    /\ fpc = "enrich"
    /\ fOut[i] = Pending
    /\ \E r \in EnrichResponses :
        LET payment_info == IF TryFromJson(r)
                            THEN Some(PaymentInfoOf(fList[i].payment_uid))
                            ELSE None
        IN /\ fOut' = [fOut EXCEPT ![i] = from_svc_responses(fList[i], payment_info)]
           /\ fFailed' = IF TryFromJson(r) THEN fFailed ELSE fFailed \cup {i}
    /\ fOrder' = Append(fOrder, i)
    /\ UNCHANGED <<now, queueVars, cancelVars, obsVars, sagaVars, storeVars,
                   fpc, fEndpoint, fLoyalty, fList, fResp, fUser, fCalls, fSeen>>

(* join_all(..).await completes when every entry has its output *)
aggregate_joined ==
    /\ fpc = "enrich"
    /\ \A i \in 1..Len(fOut) : fOut[i] # Pending
    /\ AggregateReturn(OK, join_all(fOut, fOrder), fLoyalty)
    /\ UNCHANGED <<now, queueVars, cancelVars, obsVars, sagaVars, storeVars,
                   fEndpoint, fLoyalty, fList, fOut, fOrder, fFailed,
                   fUser, fCalls, fSeen>>

(* get_reservation: GET reservation answers, routes.rs:475-491; the       *)
(* payment lookup is issued                                               *)
get_reservation_fetched ==
    /\ fpc = "single"
    /\ \E r \in ReadResponses, uid \in 1..MaxList :
        /\ fSeen' = [fSeen EXCEPT !.primary = r]
        /\ IF SendJson(r).ok
           THEN /\ fList' = <<ReservationOf(uid)>>
                /\ fOut' = <<Pending>>
                /\ fpc' = "payment"
                /\ fCalls' = Append(fCalls, "GET payment")
                /\ UNCHANGED fResp
           ELSE AggregateReturn(SendJson(r).status, <<>>, None)
                /\ UNCHANGED <<fList, fOut, fCalls>>
    /\ UNCHANGED <<now, queueVars, cancelVars, obsVars, sagaVars, storeVars,
                   fEndpoint, fLoyalty, fOrder, fFailed, fUser>>

(* get_reservation: the payment lookup answers, routes.rs:493-511 *)
get_reservation_paid ==
    /\ fpc = "payment"
    /\ \E r \in EnrichResponses :
        LET payment_info == IF TryFromJson(r)
                            THEN Some(PaymentInfoOf(fList[1].payment_uid))
                            ELSE None
        IN /\ fOut' = <<from_svc_responses(fList[1], payment_info)>>
           /\ fFailed' = IF TryFromJson(r) THEN {} ELSE {1}
           /\ AggregateReturn(OK, fOut', None)
    /\ UNCHANGED <<now, queueVars, cancelVars, obsVars, sagaVars, storeVars,
                   fEndpoint, fLoyalty, fList, fOrder, fUser, fCalls, fSeen>>

(* get_loyalty: GET loyalty answers, routes.rs:658-682 *)
get_loyalty_fetched ==
    /\ fpc = "account"
    /\ \E r \in LoyaltyReadResponses, d \in Discounts :
        /\ fSeen' = [fSeen EXCEPT !.loyalty = r]
        /\ IF SendStatusJson(r).ok
           THEN AggregateReturn(OK, <<>>, Some(d))
           ELSE AggregateReturn(SendStatusJson(r).status, <<>>, None)
    /\ UNCHANGED <<now, queueVars, cancelVars, obsVars, sagaVars, storeVars,
                   fEndpoint, fLoyalty, fList, fOut, fOrder, fFailed, fUser, fCalls>>

NextFan ==
    \/ aggregate_start
    \/ get_me_loyalty
    \/ aggregate_listed
    \/ \E i \in 1..MaxList : i <= Len(fOut) /\ aggregate_enriched(i)
    \/ aggregate_joined
    \/ get_reservation_fetched
    \/ get_reservation_paid
    \/ get_loyalty_fetched

SpecFan == Init /\ [][NextFan]_vars

(* ------------------ every handler that reads the header --------------- *)
(* The step of each of the six handlers that reads the identity header    *)
(* and either returns or issues the handler's first call; requests to     *)
(* the three groups of handlers arrive in any order.                      *)
NextIdentity ==
    \/ \E s \in Sagas : post_reservation_start(s)
    \/ \E c \in Cancels : delete_reservation_start(c)
    \/ aggregate_start

SpecIdentity == Init /\ [][NextIdentity]_vars

OwnPayments(s) == { u \in 1..Len(payments) : payments[u].owner = s }
OwnReservations(s) == { i \in 1..Len(reservations) : reservations[i].owner = s }
Succeeded(s) == spc[s] = "done" /\ sResp[s].status = OK
LoyaltyPutFailed(s) == sSeen[s].loyaltyPut \notin {0, OK}
Before(calls, a, b) ==
    \E i, j \in 1..Len(calls) : i < j /\ calls[i] = a /\ calls[j] = b

(* C1: the reservation-create request is issued only after the payment    *)
(* create of the same run has returned, and it carries the identifier the *)
(* payment service assigned to that run's payment; a run that returns     *)
(* success has done both in that order.                                   *)
C1_PaymentBeforeReservation ==
    \A s \in Sagas :
        /\ spc[s] = "reservation" =>
              /\ sPayment[s] # NoPayment
              /\ sCall[s] = Call("POST reservation", sPayment[s].payment_uid)
              /\ sCall[s].arg \in OwnPayments(s)
        /\ Succeeded(s) =>
              /\ Before(sCalls[s], "POST payment", "POST reservation")
              /\ OwnReservations(s) # {}
        /\ \A i \in OwnReservations(s) : reservations[i].payment_uid \in OwnPayments(s)

C1_Witness ==
    \E s \in Sagas :
        /\ Succeeded(s)
        /\ \E i \in OwnReservations(s) : reservations[i].payment_uid < Len(payments)

C3_AlwaysServiceUnavailable ==
    \A s \in Sagas :
        (spc[s] = "done" /\ LoyaltyPutFailed(s)) =>
            sResp[s].status = SERVICE_UNAVAILABLE

(* C9: the price sent to the payment service is                           *)
(* nights * price - nights * price * discount / 100, the quotient cut     *)
(* toward zero; 3 nights at 100 with 10 percent give 270.                 *)
C9_FinalCost ==
    \A s \in Sagas :
        spc[s] = "payment" =>
            LET cost == (sReq[s].end - sReq[s].start) * sHotel[s]
                p == cost * sLoyalty[s].discount
                cut == cost - sCall[s].arg
            IN /\ sCall[s].op = "POST payment"
               /\ sCall[s].arg = sCost[s]
               /\ p >= 0 => (cut * 100 <= p /\ p < cut * 100 + 100)
               /\ p < 0 => (cut * 100 >= p /\ p > cut * 100 - 100)
               /\ (sReq[s].end - sReq[s].start = 3 /\ sHotel[s] = 100
                      /\ sLoyalty[s].discount = 10) => sCall[s].arg = 270

C9_Witness ==
    \E s \in Sagas :
        /\ spc[s] = "payment"
        /\ sReq[s].end - sReq[s].start = 3
        /\ sHotel[s] = 100
        /\ sLoyalty[s].discount = 10
        /\ sCall[s] = Call("POST payment", 270)

(* C10: a NOT_FOUND answer to the loyalty read does not abort the run: it *)
(* goes on to create the payment with a 5 percent discount, and a run     *)
(* that then succeeds reports discount 5.                                 *)
C10_NewMember ==
    \A s \in Sagas :
        sSeen[s].loyaltyGet = NOT_FOUND =>
            /\ Len(sCalls[s]) >= 3 /\ sCalls[s][3] = "POST payment"
            /\ spc[s] \in {"payment", "loyaltyPut", "reservation", "rollback"} =>
                  sLoyalty[s].discount = 5
            /\ spc[s] = "payment" =>
                  LET cost == (sReq[s].end - sReq[s].start) * sHotel[s]
                  IN sCall[s].arg = cost - RustDiv(cost * 5, 100)
            /\ Succeeded(s) => sResp[s].discount = 5

C10_Witness ==
    \E s \in Sagas :
        /\ Succeeded(s)
        /\ sSeen[s].loyaltyGet = NOT_FOUND
        /\ sResp[s].discount = 5

(* ======================= retry queue properties ======================= *)
Enqueued(c) == \E i \in 1..Len(enqOrder) : enqOrder[i] = c

(* C4 (as stated): every cancellation whose loyalty delete failed has that *)
(* delete attempted again by the worker no later than the action's        *)
(* deadline, whatever is ahead of it in the queue; so an action the       *)
(* worker has dropped had an attempt that started by its deadline.        *)
C4_RetriedBeforeDeadline ==
    \A c \in Cancels : discarded[c] # "no" => attemptedInTime[c]

(* C4 (amended): a cancellation whose loyalty delete failed answers 204   *)
(* as soon as its action is enqueued and never anything else; the worker  *)
(* attempts every action it takes at least once before dropping it, but   *)
(* that attempt may start after the deadline.                             *)
C4_RespondedAndRetried ==
    \A c \in Cancels :
        /\ Enqueued(c) => cpc[c] = "done" /\ cResp[c] = NO_CONTENT
        /\ cpc[c] = "send" => cResp[c] = 0
        /\ discarded[c] # "no" => Enqueued(c) /\ attempted[c]
        /\ (wpc # "recv" /\ wmsg.id = c) => Enqueued(c) /\ attempted[c]

C4_Witness ==
    \E c \in Cancels :
        /\ cResp[c] = NO_CONTENT
        /\ discarded[c] = "timeout"
        /\ attempted[c]
        /\ ~attemptedInTime[c]

(* C5: no attempt of an action starts after the action's deadline. *)
C5_NoAttemptAfterDeadline ==
    \A c \in Cancels : ~attemptedLate[c]

(* C6: between two attempts of one action the worker sleeps the retry     *)
(* delay: a failed attempt arms a timer of 500 ms, the timer is left      *)
(* alone while the worker sleeps, and a retry starts only from the sleep, *)
(* once the timer has expired and the deadline check has passed.          *)
C6_RetriesSpacedByDelay ==
    [][ /\ (wpc = "request" /\ wpc' # "request") =>
              \/ wpc' = "recv"
              \/ wpc' = "sleep" /\ wake' = now + RETRY_DELAY_MS /\ wmsg' = wmsg
        /\ (wpc = "sleep" /\ wpc' = "sleep") => wake' = wake /\ wmsg' = wmsg
        /\ (wpc # "request" /\ wpc' = "request" /\ retrying') =>
              /\ wpc = "sleep"
              /\ wmsg' = wmsg
              /\ now >= wake
              /\ now <= wmsg.timeout
      ]_vars

C6_Witness == wpc = "request" /\ retrying /\ now >= RETRY_DELAY_MS

(* C7: actions are processed one at a time in enqueue order: an action    *)
(* has been attempted only if every action enqueued before it has been    *)
(* dropped (after a success or after its deadline).                       *)
C7_StrictFifo ==
    \A i, j \in 1..Len(enqOrder) :
        (i < j /\ attempted[enqOrder[j]]) => discarded[enqOrder[i]] # "no"

C7_Witness ==
    \E i, j \in 1..Len(enqOrder) :
        /\ i < j
        /\ attempted[enqOrder[j]]
        /\ discarded[enqOrder[i]] = "timeout"

(* ==================== saga properties, continued ====================== *)
(* C11: when a saga run has returned, with success or with an error,     *)
(* every payment record the run created is referenced by a reservation   *)
(* the run created or has been deleted.                                  *)
C11_NoOrphanAtReturn ==
    \A s \in Sagas :
        spc[s] = "done" =>
            \A u \in OwnPayments(s) :
                \/ payments[u].deleted
                \/ \E i \in OwnReservations(s) : reservations[i].payment_uid = u

Issued(calls, op) == \E i \in 1..Len(calls) : calls[i] = op
Ended(s) == spc[s] \in {"done", "dropped"}

(* C12: once the payment create of a run has succeeded (the loyalty      *)
(* update was issued), the run does not end before the loyalty update    *)
(* has answered and, when it failed, the delete of the run's payment was *)
(* issued; a caller that disconnects does not change this.               *)
C12_CleanupSurvivesDisconnect ==
    \A s \in Sagas :
        (Ended(s) /\ Issued(sCalls[s], "PUT loyalty")) =>
            /\ sSeen[s].loyaltyPut # 0
            /\ LoyaltyPutFailed(s) => Issued(sCalls[s], "DELETE payment")

(* ================== error propagation properties ====================== *)
(* the status that corresponds to a failed downstream call: 503 for a    *)
(* transport failure, the response's own status when it is not 2xx, 500  *)
(* for a 2xx response whose body does not decode                         *)
Corresponding(r) ==
    IF r.transport THEN SERVICE_UNAVAILABLE
    ELSE IF r.status < 200 \/ r.status >= 300 THEN r.status
    ELSE INTERNAL_SERVER_ERROR

(* the run returned the failure of the step that answered last *)
SagaStepFailed(s) ==
    /\ spc[s] = "done"
    /\ sSeen[s].last # NoResponse
    /\ sResp[s].status # OK
    /\ ~LoyaltyPutFailed(s)

CancelStepFailed(c) ==
    /\ cpc[c] = "done"
    /\ cSeen[c] # NoResponse
    /\ cResp[c] # NO_CONTENT

(* C13: a saga run or a cancellation run that ends on the failure of a   *)
(* mandatory step (the hotel read, the loyalty read, the payment create, *)
(* the reservation create; the reservation read, the reservation delete, *)
(* the payment delete) returns the status corresponding to that step's   *)
(* response: 503, the response's non-2xx status, or 500.                 *)
C13_StatusPropagated ==
    /\ \A s \in Sagas :
          SagaStepFailed(s) => sResp[s].status = Corresponding(sSeen[s].last)
    /\ \A c \in Cancels :
          CancelStepFailed(c) => cResp[c] = Corresponding(cSeen[c])

(* ==================== cancellation properties ========================= *)
(* the response received last is a failure of step 1, 2 or 3 *)
CancelFailure(c) ==
    /\ cSeen[c] # NoResponse
    /\ \/ cSeen[c].transport
       \/ is_error_status(cSeen[c].status)
       \/ Len(cCalls[c]) = 1 /\ ~cSeen[c].decodable

(* C14: a cancellation run in which the reservation read, the            *)
(* reservation delete or the payment delete fails has returned an error  *)
(* status, has issued no call after the failed one and has built and     *)
(* enqueued no deferred action; after a failed reservation delete the    *)
(* calls issued are the read and that delete, nothing else.              *)
C14_FailureAborts ==
    \A c \in Cancels :
        CancelFailure(c) =>
            /\ cpc[c] = "done"
            /\ cResp[c] >= 400
            /\ cCalls[c] \in { <<"GET reservation">>,
                               <<"GET reservation", "DELETE reservation">>,
                               <<"GET reservation", "DELETE reservation",
                                 "DELETE payment">> }
            /\ cMsg[c] = NoMsg
            /\ ~Enqueued(c)
            /\ \A i \in 1..Len(queue) : queue[i].id # c
            /\ wmsg.id # c
            /\ ~attempted[c]

C14_Witness ==
    \E c, d \in Cancels :
        /\ cpc[c] = "done"
        /\ cSeen[c] = Http(NOT_FOUND, FALSE)
        /\ cResp[c] = NOT_FOUND
        /\ cCalls[c] = <<"GET reservation", "DELETE reservation">>
        /\ Enqueued(d)

(* ======================= channel properties =========================== *)
InChannel(c) == \E i \in 1..Len(queue) : queue[i].id = c

(* C15: the channel never holds more than MESSAGE_QUEUE_SIZE (10)        *)
(* Messages; a run whose send is pending still owns its Message and has  *)
(* not answered; a run whose send found the channel full waits in that   *)
(* send until its Message is enqueued, and returns 204 after it; every   *)
(* enqueued Message is in the channel, with the worker, or was dropped   *)
(* by the worker.                                                        *)
C15_BoundedChannel ==
    /\ Len(queue) <= MESSAGE_QUEUE_SIZE
    /\ \A c \in Producers :
          /\ cpc[c] = "send" =>
                cMsg[c] # NoMsg /\ cResp[c] = 0 /\ ~Enqueued(c)
          /\ (cWaited[c] /\ ~Enqueued(c)) => cpc[c] = "send"
          /\ (cWaited[c] /\ cpc[c] = "done") =>
                Enqueued(c) /\ cResp[c] = NO_CONTENT
          /\ Enqueued(c) =>
                InChannel(c) \/ wmsg.id = c \/ discarded[c] # "no"

C15_Witness ==
    \E c \in Producers :
        /\ cWaited[c]
        /\ cpc[c] = "done"
        /\ InChannel(c)
        /\ Len(queue) = MESSAGE_QUEUE_SIZE

(* ======================== worker termination ========================== *)
(* the worker holds the action of run c *)
Taken(c) == wpc # "recv" /\ wmsg.id = c

(* the clock and the deadline of the action the worker holds are two     *)
(* retry delays before the end of the modelled time                      *)
WithinHorizon ==
    /\ now + 2 * RETRY_DELAY_MS <= MaxTime
    /\ wmsg.timeout + 2 * RETRY_DELAY_MS <= MaxTime

(* C16: every action the worker has taken is eventually dropped, after a *)
(* successful attempt or after its deadline: an action the worker has    *)
(* attempted and no longer holds is recorded as dropped, the worker that *)
(* holds an action eventually returns to recv(), and a worker that is    *)
(* free while the channel is not empty takes the next action.            *)
C16_EventuallyDiscarded ==
    /\ [](\A c \in Cancels : attempted[c] /\ ~Taken(c) => discarded[c] # "no")
    /\ (wpc # "recv" /\ WithinHorizon) ~> (wpc = "recv")
    /\ (wpc = "recv" /\ queue # <<>>) ~> (wpc = "request")

C16_Witness ==
    \E c, d \in Cancels :
        /\ discarded[c] = "ok"
        /\ discarded[d] = "timeout"
        /\ attemptedInTime[d]
        /\ enqOrder = <<c, d>>
        /\ wpc = "recv"

(* ======================= identity properties ========================== *)
Anonymous(h) == h = NoHeader \/ h = BadHeader

(* C17: a request to get_me, get_reservations, get_reservation,          *)
(* get_loyalty, post_reservation or delete_reservation that carries no   *)
(* (readable) identity header has been answered 400 and has issued no    *)
(* downstream call; a call is issued only under the caller's name.       *)
C17_IdentityRequired ==
    /\ (fpc # "idle" /\ Anonymous(fUser)) =>
          fpc = "done" /\ fResp.status = BAD_REQUEST /\ fCalls = <<>>
    /\ fCalls # <<>> => fUser \in Users
    /\ \A s \in Sagas :
          /\ (spc[s] # "idle" /\ Anonymous(sSeen[s].header)) =>
                spc[s] = "done" /\ sResp[s].status = BAD_REQUEST /\ sCalls[s] = <<>>
          /\ sCalls[s] # <<>> => sSeen[s].header \in Users
    /\ \A c \in Cancels :
          /\ (cpc[c] # "idle" /\ Anonymous(cUser[c])) =>
                cpc[c] = "done" /\ cResp[c] = BAD_REQUEST /\ cCalls[c] = <<>>
          /\ cCalls[c] # <<>> => cUser[c] \in Users

C17_Witness ==
    /\ fpc = "done" /\ fUser = NoHeader /\ fEndpoint = "get_loyalty"
    /\ fResp.status = BAD_REQUEST /\ fCalls = <<>>
    /\ \E s \in Sagas :
          spc[s] = "done" /\ sSeen[s].header = NoHeader /\ sResp[s].status = BAD_REQUEST
    /\ \E c \in Cancels :
          cpc[c] = "done" /\ cUser[c] = NoHeader /\ cResp[c] = BAD_REQUEST

(* ======================== profile properties ========================== *)
(* the response is 2xx and its body decodes *)
Answered(r) == ~r.transport /\ r.status = OK /\ r.decodable

(* C18: in get_me, a 4xx answer to the loyalty lookup is returned to the *)
(* caller as it is and the reservation list is not fetched; after a      *)
(* transport failure of the loyalty lookup the list is fetched, and when *)
(* that fetch succeeds the request returns 200 without a loyalty field.  *)
C18_ProfileLoyaltyPolicy ==
    fEndpoint = "get_me" =>
        /\ (~fSeen.loyalty.transport /\ is_client_error(fSeen.loyalty.status)) =>
              /\ fpc = "done"
              /\ fResp.status = fSeen.loyalty.status
              /\ fCalls = <<"GET loyalty">>
              /\ fSeen.primary = NoResponse
        /\ fSeen.loyalty.transport =>
              /\ fLoyalty = None
              /\ Len(fCalls) >= 2 /\ fCalls[2] = "GET reservations"
              /\ Answered(fSeen.primary) => fpc \in {"enrich", "done"}
              /\ (fpc = "done" /\ Answered(fSeen.primary)) =>
                    /\ fResp.status = OK
                    /\ fResp.loyalty = None
                    /\ Len(fResp.reservations) = Len(fList)

C18_Witness ==
    /\ fEndpoint = "get_me"
    /\ fSeen.loyalty = Transport
    /\ Answered(fSeen.primary)
    /\ fpc = "done"
    /\ fResp.status = OK
    /\ fResp.loyalty = None
    /\ Len(fResp.reservations) = 2

(* ================= saga properties: the last two steps ================ *)
(* C19: a run that has issued the reservation create issues nothing      *)
(* after it: no payment delete and no loyalty call; the payment the run  *)
(* created stays, and when the create fails or its answer does not       *)
(* decode the run returns the corresponding error status.                *)
C19_ReservationFailureNotCompensated ==
    \A s \in Sagas :
        Issued(sCalls[s], "POST reservation") =>
            /\ sCalls[s] = <<"GET hotel", "GET loyalty", "POST payment",
                             "PUT loyalty", "POST reservation">>
            /\ sSeen[s].loyaltyPut = OK
            /\ sSeen[s].rollback = 0
            /\ OwnPayments(s) # {}
            /\ \A u \in OwnPayments(s) : ~payments[u].deleted
            /\ (spc[s] = "done" /\ ~Answered(sSeen[s].last)) =>
                  /\ sResp[s].status >= 400
                  /\ sResp[s].status = Corresponding(sSeen[s].last)

C19_Witness ==
    \E s \in Sagas :
        /\ spc[s] = "done"
        /\ Issued(sCalls[s], "POST reservation")
        /\ sSeen[s].last = Http(OK, FALSE)
        /\ sResp[s].status = INTERNAL_SERVER_ERROR
        /\ OwnReservations(s) # {}
        /\ \E u \in OwnPayments(s) : ~payments[u].deleted

(* the run ended on the answer to its payment create *)
PaymentStepFailed(s) ==
    /\ spc[s] = "done"
    /\ Len(sCalls[s]) >= 3
    /\ sCalls[s][3] = "POST payment"
    /\ sSeen[s].loyaltyPut = 0
    /\ sResp[s].status # OK

(* C20: a run whose payment create failed (transport failure, non-2xx    *)
(* status or undecodable body) has left no payment record of its own and *)
(* has issued neither the loyalty update nor the reservation create.     *)
C20_PaymentFailureCommitsNothing ==
    \A s \in Sagas :
        PaymentStepFailed(s) =>
            /\ OwnPayments(s) = {}
            /\ ~Issued(sCalls[s], "PUT loyalty")
            /\ ~Issued(sCalls[s], "POST reservation")

(* ================= saga properties: the two reads ===================== *)
(* the calls of the saga that change a service's records *)
Writes == {"POST payment", "PUT loyalty", "POST reservation", "DELETE payment"}

(* the hotel read of run s answers in this step with a failure: transport *)
(* failure, error status or a body that does not decode                   *)
HotelReadFails(s) ==
    /\ spc[s] = "hotel"
    /\ spc'[s] # "hotel"
    /\ \/ sSeen'[s].last.transport
       \/ is_error_status(sSeen'[s].last.status)
       \/ ~sSeen'[s].last.decodable

(* the loyalty read of run s answers in this step with anything other    *)
(* than found (200 with a body that decodes) or not found (404)          *)
LoyaltyReadFails(s) ==
    /\ spc[s] = "loyalty"
    /\ spc'[s] # "loyalty"
    /\ sSeen'[s].last # Http(NOT_FOUND, FALSE)
    /\ sSeen'[s].last # Http(OK, TRUE)

(* C21: when the hotel read fails, or the loyalty read ends in anything  *)
(* other than found or not found, the run returns an error status in the *)
(* same step, has issued no write (payment create, loyalty update,       *)
(* reservation create, payment delete) and no record has changed.        *)
C21_ReadFailureAbortsWithoutWrite ==
    [][ \A s \in Sagas :
          (HotelReadFails(s) \/ LoyaltyReadFails(s)) =>
              /\ spc'[s] = "done"
              /\ is_error_status(sResp'[s].status)
              /\ sCalls'[s] = sCalls[s]
              /\ \A op \in Writes : ~Issued(sCalls'[s], op)
              /\ payments' = payments
              /\ reservations' = reservations
      ]_vars

C21_Witness ==
    \E s, t \in Sagas :
        /\ spc[s] = "done"
        /\ sCalls[s] = <<"GET hotel">>
        /\ sSeen[s].last = Http(OK, FALSE)
        /\ sResp[s].status = INTERNAL_SERVER_ERROR
        /\ spc[t] = "done"
        /\ sCalls[t] = <<"GET hotel", "GET loyalty">>
        /\ sSeen[t].loyaltyGet = BAD_GATEWAY
        /\ is_error_status(sResp[t].status)
        /\ payments = <<>>
        /\ reservations = <<>>

(* ================= cancellation: the deferred action ================== *)
(* how often run c has enqueued *)
TimesEnqueued(c) == Cardinality({ i \in 1..Len(enqOrder) : enqOrder[i] = c })

(* this step is the one in which the channel accepts the Message of run c *)
Accepted(c) == TimesEnqueued(c)' = TimesEnqueued(c) + 1

(* C22: a cancellation run enqueues a deferred action if and only if its *)
(* steps 1 to 3 succeeded and its own loyalty delete failed; it enqueues *)
(* exactly one, which carries the identity of the request and a deadline *)
(* of the enqueue time plus 10 seconds; a run whose loyalty delete       *)
(* succeeded enqueues nothing and returns 204.                           *)
C22_DeferredIffLoyaltyFailed ==
    /\ [](\A c \in DOMAIN cpc :
            /\ TimesEnqueued(c) <= 1
            /\ Enqueued(c) =>
                  /\ cLoyalty[c] = "err"
                  /\ ~CancelFailure(c)
                  /\ cCalls[c] = <<"GET reservation", "DELETE reservation",
                                   "DELETE payment", "DELETE loyalty">>
                  /\ cResp[c] = NO_CONTENT
            /\ cLoyalty[c] = "err" =>
                  \/ cpc[c] = "send" /\ cMsg[c].id = c
                  \/ cpc[c] = "done" /\ Enqueued(c)
            /\ cLoyalty[c] = "ok" =>
                  ~Enqueued(c) /\ cpc[c] = "done" /\ cResp[c] = NO_CONTENT)
    /\ [][ \A c \in DOMAIN cpc :
              Accepted(c) =>
                  /\ Len(queue') = Len(queue) + 1
                  /\ queue'[Len(queue')].id = c
                  /\ queue'[Len(queue')].username = cUser[c]
                  /\ cUser[c] = UserOf(c)
                  /\ queue'[Len(queue')].timeout = now + QUEUE_TIMEOUT_MS
      ]_vars

(* ================== fan-out: the primary list fetch =================== *)
(* the list fetch has answered with a failure: transport failure, a      *)
(* status that is not 2xx, or a body that does not decode                *)
PrimaryFailed ==
    /\ fSeen.primary # NoResponse
    /\ \/ fSeen.primary.transport
       \/ fSeen.primary.status < 200
       \/ fSeen.primary.status >= 300
       \/ ~fSeen.primary.decodable

(* C23: in get_me and get_reservations the list fetch is issued before   *)
(* any payment lookup, and when it fails (transport failure, non-2xx     *)
(* status, undecodable body) the request has returned an error status    *)
(* and no payment lookup was issued.                                     *)
C23_PrimaryFetchFatal ==
    fEndpoint \in {"get_me", "get_reservations"} =>
        /\ \A i \in 1..Len(fCalls) :
              fCalls[i] = "GET payment" =>
                  \E j \in 1..(i - 1) : fCalls[j] = "GET reservations"
        /\ PrimaryFailed =>
              /\ fpc = "done"
              /\ is_error_status(fResp.status)
              /\ ~Issued(fCalls, "GET payment")

(* ==================== worker: at least one attempt ==================== *)
(* this step takes the head of the channel *)
Dequeues == queue # <<>> /\ queue' = Tail(queue)

(* this step drops the action of run c *)
Drops(c) == discarded[c] = "no" /\ discarded'[c] # "no"

(* C24: the step in which the worker takes an action from the channel    *)
(* starts an attempt of that action, whatever the time and the action's  *)
(* deadline; an action is dropped only by the worker that holds it, only *)
(* after an attempt of it, and never in the step that takes it.          *)
C24_AttemptedBeforeDropped ==
    [][ /\ Dequeues =>
              /\ wpc = "recv"
              /\ wpc' = "request"
              /\ wmsg' = Head(queue)
              /\ attempted'[Head(queue).id]
              /\ discarded' = discarded
        /\ \A c \in DOMAIN discarded :
              Drops(c) =>
                  /\ attempted[c]
                  /\ wmsg.id = c
                  /\ wpc \in {"request", "sleep"}
                  /\ ~Dequeues
      ]_vars

C24_Witness ==
    \E c \in Cancels :
        /\ discarded[c] = "timeout"
        /\ attemptedLate[c]
        /\ ~attemptedInTime[c]

(* ================== cancellation: answer after enqueue ================ *)
(* this step sends the response of run c *)
Responds(c) == cResp[c] = 0 /\ cResp'[c] # 0

(* C25: a run whose loyalty delete failed answers 204 only in the step   *)
(* in which the channel accepts its action; while its send is pending it *)
(* has not answered, and with the channel full no run answers; so every  *)
(* action enqueued beyond the channel's capacity was accepted after the  *)
(* worker had taken the action that many places ahead of it.             *)
C25_EnqueueBeforeRespond ==
    /\ [](\A c \in Producers :
            /\ cpc[c] = "send" => cResp[c] = 0 /\ ~Enqueued(c)
            /\ (cLoyalty[c] = "err" /\ cResp[c] # 0) =>
                  Enqueued(c) /\ cResp[c] = NO_CONTENT)
    /\ [](\A i \in 1..Len(enqOrder) :
            i > MESSAGE_QUEUE_SIZE => attempted[enqOrder[i - MESSAGE_QUEUE_SIZE]])
    /\ [][ \A c \in Producers :
              (cLoyalty'[c] = "err" /\ Responds(c)) =>
                  /\ cpc[c] = "send"
                  /\ Len(queue) < MESSAGE_QUEUE_SIZE
                  /\ Accepted(c)
                  /\ InChannel(c)'
      ]_vars

C25_Witness ==
    \E c \in Producers :
        /\ cpc[c] = "send"
        /\ cResp[c] = 0
        /\ Len(queue) = MESSAGE_QUEUE_SIZE
        /\ wpc = "request"
        /\ retrying
        /\ now >= RETRY_DELAY_MS
        /\ \A d \in Producers : d < c => cResp[d] = NO_CONTENT

(* ================= saga: isolation of the compensation ================ *)
(* C26: with saga runs interleaved, the payment delete a run has in      *)
(* flight names the payment returned to that run by its own payment      *)
(* create; a run that has issued a payment delete has created a payment; *)
(* and a payment record is deleted only in the step in which the delete  *)
(* of the run that created it is answered: no run deletes the payment of *)
(* another run.                                                          *)
C26_CompensationIsolated ==
    /\ [](\A s \in Sagas :
            /\ spc[s] = "rollback" =>
                  /\ sCall[s].op = "DELETE payment"
                  /\ sCall[s].arg \in OwnPayments(s)
                  /\ sCall[s].arg = sPayment[s].payment_uid
            /\ Issued(sCalls[s], "DELETE payment") => OwnPayments(s) # {})
    /\ [](\A u \in 1..Len(payments) :
            payments[u].deleted =>
                /\ Issued(sCalls[payments[u].owner], "DELETE payment")
                /\ spc[payments[u].owner] = "done")
    /\ [][ \A u \in 1..Len(payments) :
              (~payments[u].deleted /\ payments'[u].deleted) =>
                  /\ spc[payments[u].owner] = "rollback"
                  /\ spc'[payments[u].owner] = "done"
                  /\ sCall[payments[u].owner].arg = u
                  /\ \A t \in Sagas : t # payments[u].owner => spc'[t] = spc[t]
                  /\ \A v \in 1..Len(payments) : v # u => payments'[v] = payments[v]
      ]_vars

C26_Witness ==
    \E s, t \in Sagas :
        /\ s # t
        /\ Len(payments) = 2
        /\ payments[1].owner = s
        /\ payments[1].deleted
        /\ payments[2].owner = t
        /\ ~payments[2].deleted
        /\ spc[s] = "done"
        /\ Issued(sCalls[s], "DELETE payment")
        /\ ~Issued(sCalls[t], "DELETE payment")
        /\ OwnReservations(t) # {}

====
